---- MODULE Spec2Model ----
(***************************************************************************)
(* A model of the GitHub trending scraper (src/scraper.py): the robots     *)
(* gate (can_fetch), the retrying fetch (fetch_trending), the extractor    *)
(* (parse_trending), the write-once snapshot store (save_data) and the     *)
(* orchestrator (main), with the disk shared by successive or concurrent   *)
(* runs.                                                                   *)
(*                                                                         *)
(* Text is a sequence of tokens: the characters that the code treats       *)
(* specially ("/", ",", " ") are tokens of their own, every other token    *)
(* stands for a run of ordinary characters.                                *)
(***************************************************************************)
EXTENDS Integers, Sequences, FiniteSets, TLC

\* ---------------------------------------------------------------- bounds
NumRuns == 3
MaxDate == 2
MaxRows == 2

\* ------------------------------------------------------ program constants
MAX_RETRIES == 3

\* The processes that run main: one for the scheduled runs that follow each
\* other, a second one for a run that overlaps the first.
Procs == {1, 2}
Dates == 1..MaxDate

\* ------------------------------------------------------------ text helpers
RECURSIVE LStrip(_, _)
LStrip(s, cs) ==
    IF s # <<>> /\ Head(s) \in cs THEN LStrip(Tail(s), cs) ELSE s

RECURSIVE RStrip(_, _)
RStrip(s, cs) ==
    IF s # <<>> /\ s[Len(s)] \in cs THEN RStrip(SubSeq(s, 1, Len(s) - 1), cs) ELSE s

\* str.strip(chars)
StripChars(s, cs) == RStrip(LStrip(s, cs), cs)

\* str.strip()
StripWs(s) == StripChars(s, {" "})

IsNotComma(c) == c # ","

\* str.replace(',', '')
RemoveCommas(s) == SelectSeq(s, IsNotComma)

\* str.endswith(suffix)
EndsWith(s, suffix) ==
    /\ Len(s) >= Len(suffix)
    /\ SubSeq(s, Len(s) - Len(suffix) + 1, Len(s)) = suffix

\* ------------------------------------------------------------ the markup
\* An optional element with its text.
NoElem == [present |-> FALSE, text |-> <<>>]
Elem(t) == [present |-> TRUE, text |-> t]

\* An optional attribute with its value.
NoAttr == [has |-> FALSE, val |-> <<>>]
Attr(v) == [has |-> TRUE, val |-> v]

\* One <article class="Box-row">, laid out as in test_scraper.py: the h2
\* (absent, without a link, or holding a link with an optional href and a
\* text), then the first <p>, the programmingLanguage span and the first
\* link outside the h2 whose href ends in /stargazers.
MkRow(h2, href, atext, p, lang, star) ==
    [h2 |-> h2, href |-> href, atext |-> atext, p |-> p, lang |-> lang, star |-> star]

HrefSamples ==
    { NoAttr,
      Attr(<<"/">>),
      Attr(<<"/", "o", "/", "r", "/">>),
      Attr(<<"/", "o", "/", "stargazers">>) }

HeadingSamples ==
    { <<"absent", NoAttr>>, <<"nolink", NoAttr>> }
        \cup { <<"link", h>> : h \in HrefSamples }

RowSamples ==
    { MkRow(hd[1], hd[2], <<"o", " ", "/", "r">>, p, lang, star) :
        hd \in HeadingSamples,
        p \in { NoElem, Elem(<<" ", "d", " ">>) },
        lang \in { NoElem, Elem(<<"C">>) },
        star \in { NoElem, Elem(<<" ", "1", ",", "234">>) } }

\* Every page of at most MaxRows rows.
AllPages == UNION { [1..n -> RowSamples] : n \in 0..MaxRows }

\* The pages of test_scraper.py, in tokens.
RowFull ==
    MkRow("link", Attr(<<"/", "torvalds", "/", "linux">>), <<"torvalds", "/", "linux">>,
          Elem(<<"Linux kernel source tree">>), Elem(<<"C">>),
          Elem(<<"160", ",", "000">>))

RowNoLanguage ==
    MkRow("link", Attr(<<"/", "example", "/", "no-language">>), <<"example", "/", "no-language">>,
          Elem(<<"Repository with no language specified">>), NoElem,
          Elem(<<"1", ",", "234">>))

RowIncomplete ==
    MkRow("link", Attr(<<"/", "incomplete", "/", "repo">>), <<"incomplete", "/", "repo">>,
          NoElem, NoElem, NoElem)

RowNoHeading ==
    MkRow("absent", NoAttr, <<>>, Elem(<<"d">>), NoElem, NoElem)

\* The pages a fetch returns in the runs of main.
Pages ==
    { <<RowNoHeading>>, <<RowIncomplete>>, <<RowFull, RowNoLanguage>> }

\* ------------------------------------------------------------ parse_trending
\* repo.h2.a raises AttributeError when the row has no h2.
RowRaises(row) == row.h2 = "absent"

\* name_element.get('href', '').strip('/') if name_element else ''
NameOf(row) ==
    IF row.h2 = "link"
    THEN StripChars(IF row.href.has THEN row.href.val ELSE <<>>, {"/"})
    ELSE <<>>

\* desc_element.text.strip() if desc_element else ''
DescOf(row) == IF row.p.present THEN StripWs(row.p.text) ELSE <<>>

\* lang_element.text.strip() if lang_element else ''
LangOf(row) == IF row.lang.present THEN StripWs(row.lang.text) ELSE <<>>

\* repo.find('a', href=lambda x: x and x.endswith('/stargazers')): the first
\* link of the row in document order, the heading's link included.
StarsElement(row) ==
    IF row.h2 = "link" /\ row.href.has /\ EndsWith(row.href.val, <<"/", "stargazers">>)
    THEN Elem(row.atext)
    ELSE row.star

\* stars_element.text.strip().replace(',', '') if stars_element else '0'
StarsOf(row) ==
    IF StarsElement(row).present
    THEN RemoveCommas(StripWs(StarsElement(row).text))
    ELSE <<"0">>

RecordOf(row) ==
    [name |-> NameOf(row), description |-> DescOf(row),
     language |-> LangOf(row), stars |-> StarsOf(row)]

\* if name: repo_list.append(...)
ParseRow_KeepsEmptyName(row) ==
    IF RowRaises(row) THEN <<>> ELSE <<RecordOf(row)>>

\* The body of the loop for one row: nothing when the row raises (caught,
\* the row is skipped) or when the name is empty, else the one record.
ParseRow(row) ==
    IF RowRaises(row) THEN <<>>
    ELSE IF NameOf(row) # <<>> THEN <<RecordOf(row)>> ELSE <<>>

RECURSIVE parse_trending(_)
parse_trending(html) ==
    IF html = <<>> THEN <<>>
    ELSE ParseRow(Head(html)) \o parse_trending(Tail(html))

\* The warnings of the except clause, one per raising row, in order.
ParseWarnings(html) ==
    [i \in 1..Cardinality({j \in 1..Len(html) : RowRaises(html[j])}) |->
        <<"WARNING", "Error parsing repository", 0>>]

ParseLog(html) ==
    <<<<"INFO", "Found repositories", Len(html)>>>>
        \o ParseWarnings(html)
        \o <<<<"INFO", "Successfully parsed", Len(parse_trending(html))>>>>

\* ------------------------------------------------------------ can_fetch
\* What the robots.txt request can end in: a connection-level failure
\* (URLError, timeout), an HTTP error status, a body that is not UTF-8, a
\* body with no rule lines, and rules that allow or disallow the URL.
RobotsOutcomes ==
    { "conn_fail", "http_403", "http_404", "http_503",
      "undecodable", "malformed", "rules_allow", "rules_disallow" }

\* The outcomes in which the robots rules were not retrieved or not parsed.
RobotsUnavailable ==
    { "conn_fail", "http_403", "http_404", "http_503", "undecodable", "malformed" }

\* robotparser.RobotFileParser(): nothing read yet; verdict is what the
\* parsed entries say about the URL (no entry: access granted).
RpFresh ==
    [disallow_all |-> FALSE, allow_all |-> FALSE, last_checked |-> FALSE, verdict |-> TRUE]

\* rp.read(): HTTPError 401/403 sets disallow_all, another 4xx allow_all, any
\* other HTTPError is swallowed; URLError and UnicodeDecodeError leave read();
\* parse() marks the rules as checked and ignores the lines it cannot read.
RpRead(o) ==
    [raised |-> o \in {"conn_fail", "undecodable"},
     rp |-> CASE o = "http_403" -> [RpFresh EXCEPT !.disallow_all = TRUE]
              [] o = "http_404" -> [RpFresh EXCEPT !.allow_all = TRUE]
              [] o = "rules_allow" -> [RpFresh EXCEPT !.last_checked = TRUE]
              [] o = "malformed" -> [RpFresh EXCEPT !.last_checked = TRUE]
              [] o = "rules_disallow" ->
                    [RpFresh EXCEPT !.last_checked = TRUE, !.verdict = FALSE]
              [] OTHER -> RpFresh]

\* rp.can_fetch(user_agent, url)
RpCanFetch(rp) ==
    IF rp.disallow_all THEN FALSE
    ELSE IF rp.allow_all THEN TRUE
    ELSE IF ~rp.last_checked THEN FALSE
    ELSE rp.verdict

\* can_fetch(url): the decision and whether the except clause logged.
can_fetch(o) ==
    IF RpRead(o).raised
    THEN [ret |-> TRUE, warned |-> TRUE]
    ELSE [ret |-> RpCanFetch(RpRead(o).rp), warned |-> FALSE]

\* ------------------------------------------------------------ the state
\* run[r]: the position and the locals of the current run of main in process
\* r, with its record of calls, of diagnostics (log lines and console lines)
\* and of its effect on the disk.  started: the runs started so far.  today:
\* the UTC date.  dirs, files: data/<date>/ and data/<date>/trending.json.
\* wins[d]: the record sequences of the save_data calls for date d that
\* returned True, in order.
VARIABLES run, started, today, dirs, files, wins

vars == <<run, started, today, dirs, files, wins>>
disk == <<dirs, files, wins>>

NoFile == [exists |-> FALSE, recs |-> <<>>]

FreshRun ==
    [pc |-> "idle", robots |-> "none", allowed |-> "none", total |-> 0,
     attempts |-> 0, html |-> <<>>, repos |-> <<>>, path |-> 0, seen |-> "none",
     saved |-> "none", exc |-> "none", raised |-> FALSE, calls |-> <<>>,
     touched |-> FALSE, wfail |-> FALSE, log |-> <<>>]

Init ==
    /\ run = [r \in Procs |-> FreshRun]
    /\ started = 0
    /\ today = 1
    /\ dirs = {}
    /\ files = [d \in Dates |-> NoFile]
    /\ wins = [d \in Dates |-> <<>>]

Logged(s, entries) == [s EXCEPT !.log = @ \o entries]
Called(s, f) == [s EXCEPT !.calls = Append(@, f)]
Say(lvl, msg, n) == <<<<lvl, msg, n>>>>
Both(lvl, msg, n) == <<<<lvl, msg, n>>, <<"PRINT", msg, n>>>>
BoolStr(b) == IF b THEN "true" ELSE "false"

\* ------------------------------------------------------------ main
\* Process r starts a run of main, its first or the one after the last.
Start(r) ==
    /\ run[r].pc \in {"idle", "done"}
    /\ started < NumRuns
    /\ started' = started + 1
    /\ run' = [run EXCEPT ![r] =
                 [Logged(FreshRun, Both("INFO", "Starting GitHub trending scraper", 0))
                    EXCEPT !.pc = "can_fetch"]]
    /\ UNCHANGED <<today, disk>>

CanFetch(r) ==
    /\ run[r].pc = "can_fetch"
    /\ \E o \in RobotsOutcomes :
         run' = [run EXCEPT ![r] =
                   [Logged(Called(@, "can_fetch"),
                           IF can_fetch(o).warned
                           THEN Say("WARNING", "Could not check robots.txt", 0)
                           ELSE <<>>)
                      EXCEPT !.robots = o,
                             !.allowed = BoolStr(can_fetch(o).ret),
                             !.pc = "gate"]]
    /\ UNCHANGED <<started, today, disk>>

MainGate_NoReturn(s) ==
    IF s.allowed = "false"
    THEN [Logged(s, Both("WARNING", "Scraping not allowed by robots.txt", 0))
            EXCEPT !.pc = "fetch"]
    ELSE [Logged(s, Both("INFO", "Robots.txt check passed", 0)) EXCEPT !.pc = "fetch"]

\* if not can_fetch(TRENDING_URL): ... return
MainGate(s) ==
    IF s.allowed = "false"
    THEN [Logged(s, Both("WARNING", "Scraping not allowed by robots.txt", 0))
            EXCEPT !.pc = "finally"]
    ELSE [Logged(s, Both("INFO", "Robots.txt check passed", 0)) EXCEPT !.pc = "fetch"]

Gate(r) ==
    /\ run[r].pc = "gate"
    /\ run' = [run EXCEPT ![r] = MainGate(@)]
    /\ UNCHANGED <<started, today, disk>>

\* ------------------------------------------------------------ fetch_trending
\* What one HTTP attempt can end in: a 2xx response, a status of the
\* status_forcelist, a connection-level failure, another error status.
HttpOutcomes == { "ok", "retry_status", "conn_fail", "client_error" }
RetryableOutcomes == { "retry_status", "conn_fail" }

\* Retry(total=MAX_RETRIES, ...)
RetryTotal_Attempts == MAX_RETRIES - 1

RetryTotal == MAX_RETRIES

FetchBegin(r) ==
    /\ run[r].pc = "fetch"
    /\ run' = [run EXCEPT ![r] =
                 [Logged(Called(@, "fetch_trending"), Say("INFO", "Fetching trending page", 0))
                    EXCEPT !.total = RetryTotal, !.attempts = 0, !.pc = "http"]]
    /\ UNCHANGED <<started, today, disk>>

\* session.get under the mounted Retry, then raise_for_status: a retryable
\* outcome decrements the total and raises once it falls below zero (a
\* RetryError or ConnectionError, both RequestException); any other error
\* status raises HTTPError at once.
AfterAttempt(s, o, page) ==
    CASE o = "ok" ->
           [Logged(s, Say("INFO", "Successfully fetched trending page", 0))
              EXCEPT !.attempts = @ + 1, !.html = page, !.pc = "parse"]
      [] o = "client_error" ->
           [s EXCEPT !.attempts = @ + 1, !.exc = "RequestException", !.pc = "except"]
      [] o \in RetryableOutcomes ->
           IF s.total - 1 < 0
           THEN [s EXCEPT !.attempts = @ + 1, !.total = @ - 1,
                          !.exc = "RequestException", !.pc = "except"]
           ELSE [s EXCEPT !.attempts = @ + 1, !.total = @ - 1]

HttpAttempt(r) ==
    /\ run[r].pc = "http"
    /\ \E o \in HttpOutcomes :
         \E page \in (IF o = "ok" THEN Pages ELSE {<<>>}) :
            run' = [run EXCEPT ![r] = AfterAttempt(@, o, page)]
    /\ UNCHANGED <<started, today, disk>>

Parse(r) ==
    /\ run[r].pc = "parse"
    /\ run' = [run EXCEPT ![r] =
                 [Logged(Called(@, "parse_trending"), ParseLog(@.html))
                    EXCEPT !.repos = parse_trending(run[r].html),
                           !.total = 0, !.attempts = 0, !.pc = "check_empty"]]
    /\ UNCHANGED <<started, today, disk>>

MainCheckEmpty_NoHalt(s) == [s EXCEPT !.pc = "save_data"]

\* if not trending_repos: ... return
MainCheckEmpty(s) ==
    IF s.repos = <<>>
    THEN [Logged(s, Both("WARNING", "No repositories found on trending page", 0))
            EXCEPT !.pc = "finally"]
    ELSE [s EXCEPT !.pc = "save_data"]

CheckEmpty(r) ==
    /\ run[r].pc = "check_empty"
    /\ run' = [run EXCEPT ![r] = MainCheckEmpty(@)]
    /\ UNCHANGED <<started, today, disk>>

\* ------------------------------------------------------------ save_data
InSave == { "makedirs", "exists", "open", "dump" }

\* today = datetime.now(timezone.utc).strftime('%Y-%m-%d')
SaveEnter(r) ==
    /\ run[r].pc = "save_data"
    /\ run' = [run EXCEPT ![r] = [Called(@, "save_data") EXCEPT !.path = today, !.pc = "makedirs"]]
    /\ UNCHANGED <<started, today, disk>>

\* os.makedirs(dir_path, exist_ok=True), outside the try of save_data
MakedirsOk(r) ==
    /\ run[r].pc = "makedirs"
    /\ dirs' = dirs \cup {run[r].path}
    /\ run' = [run EXCEPT ![r].pc = "exists"]
    /\ UNCHANGED <<started, today, files, wins>>

MakedirsFail(r) ==
    /\ run[r].pc = "makedirs"
    /\ run[r].path \notin dirs
    /\ run' = [run EXCEPT ![r] = [@ EXCEPT !.exc = "Exception", !.pc = "except"]]
    /\ UNCHANGED <<started, today, disk>>

SaveExists_NoCheck(s, exists) ==
    [s EXCEPT !.seen = BoolStr(exists), !.pc = "open"]

\* if os.path.exists(file_path): ... return False
SaveExists(s, exists) ==
    IF exists
    THEN [Logged(s, Both("INFO", "File already exists. Skipping save.", 0))
            EXCEPT !.seen = "true", !.saved = "false", !.pc = "report"]
    ELSE [s EXCEPT !.seen = "false", !.pc = "open"]

Exists(r) ==
    /\ run[r].pc = "exists"
    /\ run' = [run EXCEPT ![r] = SaveExists(@, files[run[r].path].exists)]
    /\ UNCHANGED <<started, today, disk>>

WriteFailed_Propagates(s) ==
    [s EXCEPT !.wfail = TRUE, !.exc = "Exception", !.pc = "except"]

\* except Exception as e: logging.error(...); print(...); return False
WriteFailed(s) ==
    [Logged(s, Both("ERROR", "Error saving data", 0))
       EXCEPT !.wfail = TRUE, !.saved = "false", !.pc = "report"]

OpenModeAllows_Exclusive(file) == ~file.exists

\* open(file_path, 'w'): creates the file or truncates the one there is.
OpenModeAllows(file) == TRUE

OpenOk(r) ==
    /\ run[r].pc = "open"
    /\ OpenModeAllows(files[run[r].path])
    /\ files' = [files EXCEPT ![run[r].path] = [exists |-> TRUE, recs |-> <<>>]]
    /\ run' = [run EXCEPT ![r] = [@ EXCEPT !.touched = TRUE, !.pc = "dump"]]
    /\ UNCHANGED <<started, today, dirs, wins>>

OpenFail(r) ==
    /\ run[r].pc = "open"
    /\ run' = [run EXCEPT ![r] = WriteFailed(@)]
    /\ UNCHANGED <<started, today, disk>>

\* What a write of new from offset 0 leaves of a file holding old.
Overwrite(old, new) == new \o SubSeq(old, Len(new) + 1, Len(old))

\* json.dump(data, f, ...) and the close of the with block succeed.
DumpOk(r) ==
    /\ run[r].pc = "dump"
    /\ files' = [files EXCEPT ![run[r].path] =
                   [exists |-> TRUE, recs |-> Overwrite(@.recs, run[r].repos)]]
    /\ wins' = [wins EXCEPT ![run[r].path] = Append(@, run[r].repos)]
    /\ run' = [run EXCEPT ![r] =
                 [Logged(@, Both("INFO", "Successfully saved", Len(@.repos)))
                    EXCEPT !.saved = "true", !.pc = "report"]]
    /\ UNCHANGED <<started, today, dirs>>

\* They fail (disk full, an unencodable string) after k whole records.
DumpFail(r) ==
    /\ run[r].pc = "dump"
    /\ \E k \in 0..(Len(run[r].repos) - 1) :
         files' = [files EXCEPT ![run[r].path] =
                     [exists |-> TRUE,
                      recs |-> Overwrite(@.recs, SubSeq(run[r].repos, 1, k))]]
    /\ run' = [run EXCEPT ![r] = WriteFailed(@)]
    /\ UNCHANGED <<started, today, dirs, wins>>

\* ------------------------------------------------------------ main, the end
\* if saved: ... else: print("Data already exists for today.")
MainReport(s) ==
    IF s.saved = "true"
    THEN [Logged(s, <<<<"PRINT", "Successfully scraped", Len(s.repos)>>,
                       <<"INFO", "Scraping completed successfully", Len(s.repos)>>>>)
            EXCEPT !.pc = "finally"]
    ELSE [Logged(s, Say("PRINT", "Data already exists for today.", 0))
            EXCEPT !.pc = "finally"]

Report(r) ==
    /\ run[r].pc = "report"
    /\ run' = [run EXCEPT ![r] = MainReport(@)]
    /\ UNCHANGED <<started, today, disk>>

MainExcept_NoCatchAll(s) ==
    IF s.exc = "RequestException"
    THEN [Logged(s, Both("ERROR", "Network error", 0))
            EXCEPT !.exc = "none", !.pc = "finally"]
    ELSE [s EXCEPT !.pc = "finally"]

\* except requests.RequestException ... except Exception ...
MainExcept(s) ==
    IF s.exc = "RequestException"
    THEN [Logged(s, Both("ERROR", "Network error", 0))
            EXCEPT !.exc = "none", !.pc = "finally"]
    ELSE [Logged(s, Both("ERROR", "Unexpected error", 0))
            EXCEPT !.exc = "none", !.pc = "finally"]

Except(r) ==
    /\ run[r].pc = "except"
    /\ run' = [run EXCEPT ![r] = [MainExcept(@) EXCEPT !.total = 0, !.attempts = 0]]
    /\ UNCHANGED <<started, today, disk>>

\* finally: the last diagnostic; main returns, or the exception that no
\* clause caught leaves it, and the locals are gone.
Finally(r) ==
    /\ run[r].pc = "finally"
    /\ run' = [run EXCEPT ![r] =
                 [Logged(@, Both("INFO", "Scraper finished", 0))
                    EXCEPT !.raised = (run[r].exc # "none"),
                           !.robots = "none", !.total = 0, !.html = <<>>,
                           !.exc = "none", !.pc = "done"]]
    /\ UNCHANGED <<started, today, disk>>

\* The UTC date moves on.  Only the first line of save_data reads it, so
\* the change is placed between runs or right before that read.
Tick ==
    /\ today < MaxDate
    /\ \A r \in Procs : run[r].pc \in {"idle", "save_data", "done"}
    /\ today' = today + 1
    /\ UNCHANGED <<run, started, disk>>

\* ------------------------------------------------------------ specifications
\* A step of run r.
Step(r) ==
    \/ Start(r)
    \/ CanFetch(r)
    \/ Gate(r)
    \/ FetchBegin(r)
    \/ HttpAttempt(r)
    \/ Parse(r)
    \/ CheckEmpty(r)
    \/ SaveEnter(r)
    \/ MakedirsOk(r)
    \/ MakedirsFail(r)
    \/ Exists(r)
    \/ OpenOk(r)
    \/ OpenFail(r)
    \/ DumpOk(r)
    \/ DumpFail(r)
    \/ Report(r)
    \/ Except(r)
    \/ Finally(r)

\* The scheduled runs: one process runs main again and again, each run after
\* the one before has ended.
Next ==
    \/ Tick
    \/ Step(1)

Spec == Init /\ [][Next]_vars

\* A run that has started runs to its end.
FairSpec == Spec /\ WF_vars(Step(1))

\* Two runs that overlap, one per process: the second starts once the first
\* has reached save_data (before that the first touches nothing the second
\* can see), and from then on their steps interleave freely.
BeforeSave == { "idle", "can_fetch", "gate", "fetch", "http", "parse", "check_empty" }

ConcNext ==
    \/ Tick
    \/ run[1].pc # "done" /\ Step(1)
    \/ run[1].pc \notin BeforeSave /\ run[2].pc # "done" /\ Step(2)

ConcSpec == Init /\ [][ConcNext]_vars

\* parse_trending called on its own, as test_scraper.py calls it, with any
\* page of at most MaxRows rows.
ParseInit ==
    /\ \E page \in AllPages :
         run = [r \in Procs |->
                  IF r = 1 THEN [FreshRun EXCEPT !.html = page, !.pc = "parse"] ELSE FreshRun]
    /\ started = 0
    /\ today = 1
    /\ dirs = {}
    /\ files = [d \in Dates |-> NoFile]
    /\ wins = [d \in Dates |-> <<>>]

ParseNext == Parse(1)

ParseSpec == ParseInit /\ [][ParseNext]_vars

\* ------------------------------------------------------------ properties
HasLog(s, lvl, msg) == \E i \in DOMAIN s.log : s.log[i][1] = lvl /\ s.log[i][2] = msg
InCalls(s, f) == \E i \in DOMAIN s.calls : s.calls[i] = f
LastLog(s) == IF s.log = <<>> THEN <<"", "", 0>> ELSE s.log[Len(s.log)]

\* C1: with runs that do not overlap, a save_data call that finds the
\* artifact there returns False and does not touch it, at most one call per
\* date returns True, and the artifact of a date with such a call stays what
\* that call wrote, whether later calls bring the same data or other data.
C1_WriteOnce ==
    /\ \A d \in Dates :
         /\ Len(wins[d]) <= 1
         /\ Len(wins[d]) = 1 => files[d] = [exists |-> TRUE, recs |-> wins[d][1]]
    /\ \A r \in Procs :
         run[r].seen = "true" => run[r].saved = "false" /\ ~run[r].touched

\* A later call with other data has found the first call's artifact and ended.
C1_Witness ==
    /\ run[1].pc = "done"
    /\ run[1].seen = "true"
    /\ Len(wins[run[1].path]) = 1
    /\ run[1].repos # wins[run[1].path][1]

\* C2: a run whose policy check reports denial calls nothing but can_fetch,
\* makes no HTTP attempt, writes no artifact and ends without raising.
C2_DeniedHalts ==
    \A r \in Procs :
       run[r].allowed = "false" =>
          /\ run[r].calls = <<"can_fetch">>
          /\ run[r].pc \in {"gate", "finally", "done"}
          /\ run[r].attempts = 0
          /\ run[r].html = <<>>
          /\ run[r].saved = "none"
          /\ ~run[r].touched
          /\ run[r].exc = "none"
          /\ ~run[r].raised

C2_Witness == run[1].pc = "done" /\ run[1].allowed = "false"

\* C3: whenever the robots rules were not retrieved or not parsed (a
\* connection-level failure, an HTTP error response, 401 and 403 included,
\* or malformed content), can_fetch returns permitted: a retrieval failure
\* never results in a denial.
C3_FailsOpen ==
    \A r \in Procs :
       run[r].pc = "gate" /\ run[r].robots \in RobotsUnavailable =>
          run[r].allowed = "true"

\* Every attempt so far ended in a retryable outcome and fetch_trending goes
\* on, or has just given up.
AllRetryable(s) == s.pc = "http" \/ (s.pc = "except" /\ s.total < 0)
GaveUp(s) == s.pc = "except" /\ s.total < 0

\* C4, as claimed: when every attempt ends in a retryable outcome, at most
\* MAX_RETRIES attempts are made before fetch_trending fails with a
\* RequestException.
C4_AtMostMaxRetriesAttempts ==
    \A r \in Procs :
       AllRetryable(run[r]) =>
          /\ run[r].attempts <= MAX_RETRIES
          /\ GaveUp(run[r]) => run[r].exc = "RequestException"

\* C4, amended: when every attempt ends in a retryable outcome, exactly
\* MAX_RETRIES + 1 attempts are made (the first and MAX_RETRIES retries), and
\* then fetch_trending fails with a RequestException; no run makes more.
C4_AtMostMaxRetriesPlusOne ==
    \A r \in Procs :
       /\ run[r].attempts <= MAX_RETRIES + 1
       /\ run[r].pc = "http" => run[r].attempts <= MAX_RETRIES
       /\ GaveUp(run[r]) =>
             /\ run[r].attempts = MAX_RETRIES + 1
             /\ run[r].exc = "RequestException"

C4_Witness == GaveUp(run[1]) /\ run[1].attempts = MAX_RETRIES + 1

\* C5: every run of main that has started ends, with "Scraper finished" as
\* its last diagnostic and with no exception leaving main.
C5_AlwaysFinishes ==
    /\ [](run[1].pc = "done" =>
            /\ ~run[1].raised
            /\ LastLog(run[1]) = <<"PRINT", "Scraper finished", 0>>)
    /\ (run[1].pc = "can_fetch") ~> (run[1].pc = "done")

\* A run that went through the unexpected-error report has ended.
C5_Witness ==
    /\ run[1].pc = "done"
    /\ HasLog(run[1], "ERROR", "Unexpected error")
    /\ LastLog(run[1]) = <<"PRINT", "Scraper finished", 0>>

\* C6: save_data is called, and an artifact touched, only after
\* fetch_trending returned a body and parse_trending a non-empty sequence; a
\* run with a network error or an empty result never reaches save_data.
C6_SaveOnlyAfterParse ==
    \A r \in Procs :
       /\ (InCalls(run[r], "save_data") \/ run[r].touched \/ run[r].pc \in InSave) =>
             /\ run[r].calls = <<"can_fetch", "fetch_trending", "parse_trending", "save_data">>
             /\ HasLog(run[r], "INFO", "Successfully fetched trending page")
             /\ run[r].repos # <<>>
       /\ ( \/ HasLog(run[r], "WARNING", "No repositories found on trending page")
            \/ HasLog(run[r], "ERROR", "Network error")
            \/ run[r].exc = "RequestException" ) =>
             /\ ~InCalls(run[r], "save_data")
             /\ ~run[r].touched
             /\ run[r].saved = "none"

\* A run whose extraction was empty has ended.
C6_Witness ==
    /\ run[1].pc = "done"
    /\ HasLog(run[1], "WARNING", "No repositories found on trending page")
    /\ InCalls(run[1], "parse_trending")

\* The row's name resolves: its heading holds a link whose href has a
\* character other than the path separator.
Resolvable(row) ==
    /\ row.h2 = "link"
    /\ row.href.has
    /\ \E i \in 1..Len(row.href.val) : row.href.val[i] # "/"

\* The row has no link to .../stargazers.
NoStarLink(row) ==
    /\ ~row.star.present
    /\ ~(row.h2 = "link" /\ row.href.has /\ EndsWith(row.href.val, <<"/", "stargazers">>))

\* C7: parse_trending emits one record per row whose name resolves, in
\* document order, and no other; every emitted name is non-empty; an absent
\* description, language or stargazers element gives "", "" and "0".
C7_EmitsIffNamed ==
    run[1].pc = "check_empty" =>
       LET html == run[1].html
           out == run[1].repos
           Named == { i \in 1..Len(html) : Resolvable(html[i]) }
           Kth(k) == CHOOSE i \in Named : Cardinality({ j \in Named : j <= i }) = k
       IN /\ Len(out) = Cardinality(Named)
          /\ Len(out) <= Len(html)
          /\ \A k \in 1..Len(out) :
                /\ out[k].name # <<>>
                /\ ~html[Kth(k)].p.present => out[k].description = <<>>
                /\ ~html[Kth(k)].lang.present => out[k].language = <<>>
                /\ NoStarLink(html[Kth(k)]) => out[k].stars = <<"0">>

\* Of two rows, the one with a name and nothing else came out, with the defaults.
C7_Witness ==
    /\ run[1].pc = "check_empty"
    /\ Len(run[1].html) = 2
    /\ run[1].repos =
         <<[name |-> <<"o", "/", "r">>, description |-> <<>>,
            language |-> <<>>, stars |-> <<"0">>]>>

\* C8: a failure of the write in save_data is logged at error level and
\* returned as False; no exception leaves save_data, and main goes on
\* through its report of the return value, not through an except clause.
C8_WriteFailureContained ==
    \A r \in Procs :
       run[r].wfail =>
          /\ run[r].saved = "false"
          /\ run[r].exc = "none"
          /\ ~run[r].raised
          /\ run[r].pc \in {"report", "finally", "done"}
          /\ HasLog(run[r], "ERROR", "Error saving data")
          /\ ~HasLog(run[r], "ERROR", "Unexpected error")
          /\ ~HasLog(run[r], "ERROR", "Network error")
          /\ run[r].pc \in {"finally", "done"} =>
                HasLog(run[r], "PRINT", "Data already exists for today.")

C8_Witness == run[1].wfail /\ run[1].pc = "done"

NoSaveUnderWay == \A r \in Procs : run[r].pc \notin InSave

\* C9: once no save_data call is under way, an artifact exists for a date
\* only if a call for that date returned True, and it holds the records of
\* such a call: a failed write leaves no empty or partial artifact.
C9_NoPartialArtifact ==
    NoSaveUnderWay =>
       \A d \in Dates :
          files[d].exists =>
             \E i \in 1..Len(wins[d]) : files[d].recs = wins[d][i]

\* C10: nothing but the existence check stands between a run and the write:
\* a run past the check can always open the file, whatever another run has
\* created meanwhile, and a run whose check saw no file and whose write did
\* not fail returns True.
C10_NoLock ==
    \A r \in Procs :
       /\ run[r].pc = "open" => ENABLED OpenOk(r)
       /\ run[r].pc = "dump" => ENABLED DumpOk(r)
       /\ (run[r].pc \in {"report", "finally", "done"}
             /\ run[r].seen = "false" /\ ~run[r].wfail) => run[r].saved = "true"

\* Two overlapping runs for one date both returned True, and the artifact
\* is not what the first of them wrote.
C10_Witness ==
    /\ run[1].pc = "done" /\ run[2].pc = "done"
    /\ run[1].saved = "true" /\ run[2].saved = "true"
    /\ run[1].path = run[2].path
    /\ Len(wins[run[1].path]) = 2
    /\ files[run[1].path].recs # wins[run[1].path][1]

====
